---- MODULE Spec2Model ----
(***************************************************************************)
(* Model of bot.py: the per-user conversation workflow (start, cancel,     *)
(* game selection, tag step, description step) run as concurrent handler   *)
(* tasks over an in-memory FSM storage, and the Brawl Stars image provider *)
(* chain fetch_bs_image.                                                   *)
(*                                                                         *)
(* A handler runs atomically from one network await to the next: the       *)
(* storage calls (state.clear, state.get_data, state.update_data,          *)
(* state.set_state on MemoryStorage) never suspend, every call to the      *)
(* messaging API or to an HTTP endpoint does.  The code takes no per-user  *)
(* lock, so handler tasks of one user interleave at those awaits.          *)
(* A send has both outcomes where the handler has more to decide after it  *)
(* (the loading message before the stats fetch, the publish sends); the    *)
(* replies that close a handler after its last storage call are recorded   *)
(* when they are issued.                                                   *)
(***************************************************************************)
EXTENDS Integers, Sequences, FiniteSets, TLC

VARIABLES
    session,      \* storage: user -> [state, data]
    tasks,        \* slot -> the handler task suspended at an await (or NoTask)
    finished,     \* what the handler execution that ended in the last step did
    cancelled,    \* user -> the last update processed for the user was /cancel
    updates,      \* how many updates the dispatcher has handed to handlers
    CHANNEL_ID,   \* the broadcast destination read at process start ("" when unset)
    r_pc, r_idx, r_contacted, r_result,  \* one run of fetch_bs_image, provider by provider
    t_pc, t_text, t_raw, t_accepted      \* one run of the tag validation of process_tag

vars == <<session, tasks, finished, cancelled, updates, CHANNEL_ID,
          r_pc, r_idx, r_contacted, r_result,
          t_pc, t_text, t_raw, t_accepted>>

workflowVars == <<session, tasks, finished, cancelled, updates, CHANNEL_ID>>
resolverVars == <<r_pc, r_idx, r_contacted, r_result>>
validationVars == <<t_pc, t_text, t_raw, t_accepted>>

(***************************************************************************)
(* Bounds                                                                  *)
(***************************************************************************)
\* handler tasks that may be suspended at an await at once
MaxInFlight == 2
\* updates (messages, button presses) handed to handlers in one run
MaxUpdates == 4
\* longest run of characters after the optional "#" in a validated text
MaxBodyLen == 16

Users == {"u1", "u2"}
Slots == 1..MaxInFlight

(***************************************************************************)
(* Text: a message text is a sequence of one-character strings             *)
(***************************************************************************)
TagAlphabet == {"0", "2", "8", "9", "P", "Y", "L", "Q", "G", "R", "J", "C", "U", "V"}
MinTagLen == 3
MaxTagLen == 15

LowerToUpper ==
    [c \in {"p", "y", "l", "q", "g", "r", "j", "c", "u", "v", "x"} |->
        CASE c = "p" -> "P" [] c = "y" -> "Y" [] c = "l" -> "L" [] c = "q" -> "Q"
          [] c = "g" -> "G" [] c = "r" -> "R" [] c = "j" -> "J" [] c = "c" -> "C"
          [] c = "u" -> "U" [] c = "v" -> "V" [] c = "x" -> "X"]

\* str.upper(), character by character
UpperChar(c) == IF c \in DOMAIN LowerToUpper THEN LowerToUpper[c] ELSE c
Upper(s) == [i \in 1..Len(s) |-> UpperChar(s[i])]

IsSpace(c) == c = " "

RECURSIVE LStrip(_)
LStrip(s) == IF s # <<>> /\ IsSpace(Head(s)) THEN LStrip(Tail(s)) ELSE s

RECURSIVE RStrip(_)
RStrip(s) ==
    IF s # <<>> /\ IsSpace(s[Len(s)]) THEN RStrip(SubSeq(s, 1, Len(s) - 1)) ELSE s

\* str.strip()
Strip(s) == RStrip(LStrip(s))

\* str.startswith("#")
StartsWithHash(s) == s # <<>> /\ s[1] = "#"

\* the pattern without its closing anchor: ^#?[0289PYLQGRJCUV]{3,15}
TAG_PATTERN_match_unanchored(raw) ==
    \E h \in {0, 1} :
        /\ h = 1 => StartsWithHash(raw)
        /\ Len(raw) - h >= MinTagLen
        /\ \A i \in (h + 1)..(h + MinTagLen) : UpperChar(raw[i]) \in TagAlphabet

\* TAG_PATTERN.match(raw): ^#?[0289PYLQGRJCUV]{3,15}$ with re.IGNORECASE
TAG_PATTERN_match(raw) ==
    \E h \in {0, 1} :
        /\ h = 1 => StartsWithHash(raw)
        /\ Len(raw) - h >= MinTagLen
        /\ Len(raw) - h <= MaxTagLen
        /\ \A i \in (h + 1)..Len(raw) : UpperChar(raw[i]) \in TagAlphabet

\* a normalisation that prepends "#" without looking for one
NormalizeAlwaysPrefixed(text) == <<"#">> \o Upper(Strip(text))

\* process_tag lines 444-446: strip, upper, prepend "#" when absent
Normalize(text) ==
    LET up == Upper(Strip(text))
    IN  IF StartsWithHash(up) THEN up ELSE <<"#">> \o up

(***************************************************************************)
(* FSM storage: per user a state and a data dict                           *)
(***************************************************************************)
EmptyData == [k \in {} |-> ""]

\* dict.get(k, default)
Get(d, k, default) == IF k \in DOMAIN d THEN d[k] ELSE default

\* state.update_data(**new)
UpdateData(d, new) ==
    [k \in DOMAIN d \cup DOMAIN new |-> IF k \in DOMAIN new THEN new[k] ELSE d[k]]

\* state.clear(): state None, data {}
ClearedSession == [state |-> "None", data |-> EmptyData]

GAMES == {"bs", "cr", "coc"}

(***************************************************************************)
(* Stats Fetcher                                                           *)
(***************************************************************************)
\* what the stats endpoint does: an HTTP status, or a transport error
StatsResponses ==
    [kind : {"http"}, status : {200, 404, 403, 500}]
        \cup {[kind |-> "error", status |-> 0]}

\* the JSON body of a 200 answer: the player of that game and tag
PlayerData(game_id, tag) == [game |-> game_id, tag |-> tag]

\* fetch_player: the value returned, or the exception raised
fetch_player(tag, game_id, resp) ==
    IF resp.kind = "error" THEN [raises |-> "ClientError", value |-> PlayerData("", <<>>)]
    ELSE IF resp.status = 200 THEN [raises |-> "", value |-> PlayerData(game_id, tag)]
    ELSE IF resp.status = 404 THEN [raises |-> "ValueError", value |-> PlayerData("", <<>>)]
    ELSE IF resp.status = 403 THEN [raises |-> "PermissionError", value |-> PlayerData("", <<>>)]
    ELSE [raises |-> "ConnectionError", value |-> PlayerData("", <<>>)]

(***************************************************************************)
(* Asset Resolver: fetch_bs_image                                          *)
(***************************************************************************)
\* len(IMAGE_URLS_BS)
NumProviders == 5
Providers == 1..NumProviders

\* Bodies are byte sequences, a Content-Type is a sequence of tokens.
PngBody == <<"89", "P", "N", "G", "0D", "0A">>
JpegBody == <<"FF", "D8", "FF", "E0">>
RiffBody == <<"R", "I", "F", "F", "00", "W", "E", "B", "P">>
HtmlBody == <<"<", "h", "t", "m", "l", ">">>
CutPngBody == <<"89", "P">>

CtHtml == <<"text", "/", "html">>
CtPng == <<"image", "/", "png">>
CtNone == <<>>

\* what a provider does when contacted: a transport exception, or a response
RespError == [exc |-> TRUE, status |-> 0, ct |-> CtNone, body |-> <<>>]
Resp(status, ct, body) == [exc |-> FALSE, status |-> status, ct |-> ct, body |-> body]

ProviderResponses ==
    { RespError,
      Resp(404, CtPng, PngBody),
      Resp(200, CtHtml, HtmlBody),
      Resp(200, CtHtml, PngBody),
      Resp(200, CtNone, JpegBody),
      Resp(200, CtHtml, RiffBody),
      Resp(200, CtPng, HtmlBody),
      Resp(200, CtHtml, CutPngBody),
      Resp(200, CtPng, <<>>) }

\* data[:n]
Prefix(data, n) == SubSeq(data, 1, IF Len(data) < n THEN Len(data) ELSE n)

\* "image" in ct
ContainsImage(ct) == \E i \in 1..Len(ct) : ct[i] = "image"

\* line 137, without the status test
LooksLikeImage(ct, data) ==
    \/ ContainsImage(ct)
    \/ Prefix(data, 4) = <<"89", "P", "N", "G">>
    \/ Prefix(data, 2) = <<"FF", "D8">>

\* the status test of line 135 left out
ProviderAcceptedAnyStatus(resp) ==
    /\ ~resp.exc
    /\ LooksLikeImage(resp.ct, resp.body)

\* lines 131-141, one pass of the loop body: TRUE when it returns data
ProviderAccepted(resp) ==
    /\ ~resp.exc
    /\ resp.status = 200
    /\ LooksLikeImage(resp.ct, resp.body)

\* bytes | None
NoBytes == [found |-> FALSE, data |-> <<>>]
SomeBytes(data) == [found |-> TRUE, data |-> data]

\* Python truthiness of bytes | None
Truthy(b) == b.found /\ b.data # <<>>

\* fetch_bs_image over the responses the providers give, from provider i on
RECURSIVE fetch_from(_, _)
fetch_from(resps, i) ==
    IF i > Len(resps) THEN NoBytes
    ELSE IF ProviderAccepted(resps[i]) THEN SomeBytes(resps[i].body)
    ELSE fetch_from(resps, i + 1)

fetch_bs_image(resps) == fetch_from(resps, 1)

\* the same loop, one provider per step
ResolverInit ==
    /\ r_pc = "loop"
    /\ r_idx = 1
    /\ r_contacted = <<>>
    /\ r_result = NoBytes

\* line 142: the list is exhausted
ResolverExhausted ==
    /\ r_pc = "loop"
    /\ r_idx > NumProviders
    /\ r_pc' = "returned"
    /\ r_result' = NoBytes
    /\ UNCHANGED <<r_idx, r_contacted>>

\* lines 129-141: the GET to provider r_idx answers resp
ResolverTry(resp) ==
    /\ r_pc = "loop"
    /\ r_idx <= NumProviders
    /\ r_contacted' = Append(r_contacted, [provider |-> r_idx, resp |-> resp])
    /\ IF ProviderAccepted(resp)
       THEN /\ r_pc' = "returned"
            /\ r_result' = SomeBytes(resp.body)
            /\ UNCHANGED r_idx
       ELSE /\ r_idx' = r_idx + 1
            /\ UNCHANGED <<r_pc, r_result>>

ResolverNext ==
    \/ \E resp \in ProviderResponses : ResolverTry(resp) /\ UNCHANGED <<workflowVars, validationVars>>
    \/ ResolverExhausted /\ UNCHANGED <<workflowVars, validationVars>>

(***************************************************************************)
(* Card Renderer and caption                                               *)
(***************************************************************************)
\* generate_bs_card / generate_cr_card / generate_coc_card: PNG bytes drawn
\* from the stats alone
generate_card(game_id, player_data) ==
    SomeBytes(<<"89", "P", "N", "G", game_id, player_data.game>> \o player_data.tag)

\* build_caption: the game header comes from game_id, the figures from player_data
build_caption(player_data, game_id, tag, description) ==
    [game_id |-> game_id, stats |-> player_data, tag |-> tag, description |-> description]

NoCaption == build_caption(PlayerData("", <<>>), "", <<>>, "")

(***************************************************************************)
(* Inputs                                                                  *)
(***************************************************************************)
RECURSIVE Rep(_, _)
Rep(c, n) == IF n = 0 THEN <<>> ELSE <<c>> \o Rep(c, n - 1)

TextPlain == <<"2", "p", "g">>
TextPadded == <<" ", "#", "2", "p", "g", " ">>
TextBadChar == <<"#", "2", "x", "9">>
TextShort == <<"#", "2", "8">>
TextLong == <<"#">> \o Rep("9", MaxTagLen + 1)

\* texts a user sends in the tag step (commands go to their own handlers)
TagTexts == {TextPlain, TextPadded, TextBadChar, TextShort, TextLong}

Descriptions == {"great player"}

\* callback data after "game_": the three buttons, and a forged one
GameChoices == GAMES \cup {"xx"}

(***************************************************************************)
(* Handler tasks                                                           *)
(***************************************************************************)
NoTask ==
    [user |-> "", handler |-> "none", pc |-> "idle", raw |-> <<>>, game_id |-> "",
     player_data |-> PlayerData("", <<>>), img_bytes |-> NoBytes, caption |-> NoCaption,
     emitted |-> {}, fetched |-> FALSE, resolver |-> "none",
     userAttempts |-> 0, userOK |-> FALSE, bcastAttempts |-> 0, bcastOK |-> FALSE]

\* the record of a handler execution that ended: the state it was dispatched
\* in, how it ended and what it did (resolver: how the call of fetch_bs_image
\* ended, "none" when the handler made no such call)
Trace(user, handler, from, result, raisedAt, text, raises, t) ==
    [user |-> user, handler |-> handler, from |-> from, result |-> result,
     raisedAt |-> raisedAt, text |-> text, raises |-> raises,
     emitted |-> t.emitted, fetched |-> t.fetched, resolver |-> t.resolver,
     userAttempts |-> t.userAttempts, userOK |-> t.userOK,
     bcastAttempts |-> t.bcastAttempts, bcastOK |-> t.bcastOK]

NoTrace == Trace("", "none", "", "none", "", <<>>, "", NoTask)

\* a handler that replies once and returns
Replied(user, handler, text, msg) ==
    Trace(user, handler, session[user].state, "return", "", text, "",
          [NoTask EXCEPT !.emitted = {msg}])

FreeSlots == {s \in Slots : tasks[s] = NoTask}
FirstFree == CHOOSE s \in FreeSlots : \A x \in FreeSlots : s <= x

\* no validation run is looked at on its own
ValidationIdle ==
    /\ t_pc = "idle"
    /\ t_text = <<>>
    /\ t_raw = <<>>
    /\ t_accepted = FALSE

\* the dispatcher hands one more update, of user u, to its handler
Processed(u, isCancel) ==
    /\ updates < MaxUpdates
    /\ updates' = updates + 1
    /\ cancelled' = [cancelled EXCEPT ![u] = isCancel]

Init ==
    /\ session = [u \in Users |-> ClearedSession]
    /\ tasks = [s \in Slots |-> NoTask]
    /\ finished = NoTrace
    /\ cancelled = [u \in Users |-> FALSE]
    /\ updates = 0
    /\ CHANNEL_ID \in {"", "@channel"}
    /\ ResolverInit
    /\ ValidationIdle

(***************************************************************************)
(* Commands and game selection                                             *)
(***************************************************************************)
\* a /start that clears the whole storage instead of the sender's key
cmd_start_clears_storage(u) ==
    /\ session' = [v \in Users |-> ClearedSession]
    /\ finished' = Replied(u, "cmd_start", <<>>, "choose_game")
    /\ Processed(u, FALSE)
    /\ UNCHANGED <<tasks, CHANNEL_ID>>

\* lines 392-400
cmd_start(u) ==
    /\ session' = [session EXCEPT ![u] = ClearedSession]
    /\ finished' = Replied(u, "cmd_start", <<>>, "choose_game")
    /\ Processed(u, FALSE)
    /\ UNCHANGED <<tasks, CHANNEL_ID>>

\* lines 402-412
cmd_help(u) ==
    /\ finished' = Replied(u, "cmd_help", <<>>, "help")
    /\ Processed(u, FALSE)
    /\ UNCHANGED <<session, tasks, CHANNEL_ID>>

\* set_state(None) in place of clear(): the data dict survives
SessionAfterCancelKeepsData(sess) == [sess EXCEPT !.state = "None"]

\* line 416
SessionAfterCancel(sess) == ClearedSession

\* lines 414-417
cmd_cancel(u) ==
    /\ session' = [session EXCEPT ![u] = SessionAfterCancel(session[u])]
    /\ finished' = Replied(u, "cmd_cancel", <<>>, "cancelled")
    /\ Processed(u, TRUE)
    /\ UNCHANGED <<tasks, CHANNEL_ID>>

\* a selection that moves to waiting_for_tag without storing the game
SessionAfterGameNotStored(sess, game_id) ==
    [state |-> "waiting_for_tag", data |-> sess.data]

\* lines 428-429: update_data(game_id=...), set_state(waiting_for_tag)
SessionAfterGame(sess, game_id) ==
    [state |-> "waiting_for_tag", data |-> UpdateData(sess.data, [game_id |-> game_id])]

\* lines 420-436
on_game_selected(u, game_id) ==
    /\ IF game_id \notin GAMES
       THEN /\ finished' = Replied(u, "on_game_selected", <<>>, "unknown_game")
            /\ UNCHANGED session
       ELSE /\ session' = [session EXCEPT ![u] = SessionAfterGame(session[u], game_id)]
            /\ finished' = Replied(u, "on_game_selected", <<>>, "ask_tag")
    /\ Processed(u, FALSE)
    /\ UNCHANGED <<tasks, CHANNEL_ID>>

\* lines 544-549: a text that no earlier handler takes
fallback_text(u) ==
    /\ session[u].state = "None"
    /\ finished' = Replied(u, "fallback_text", <<>>, "press_start")
    /\ Processed(u, FALSE)
    /\ UNCHANGED <<session, tasks, CHANNEL_ID>>

(***************************************************************************)
(* Tag step: process_tag                                                   *)
(***************************************************************************)
\* the pattern written {3,} in place of {3,15}
TagAcceptedNoUpperBound(text) ==
    LET raw == Normalize(text) IN
    \E h \in {0, 1} :
        /\ h = 1 => StartsWithHash(raw)
        /\ Len(raw) - h >= MinTagLen
        /\ \A i \in (h + 1)..Len(raw) : UpperChar(raw[i]) \in TagAlphabet

\* lines 444-448: the text passes the validation
TagAccepted(text) == TAG_PATTERN_match(Normalize(text))

\* an except branch that gives up the workflow: state.clear() before return
SessionClearedOnFetchError(sess, raises) == ClearedSession

\* lines 459-468: every except branch replies and returns
SessionAfterFetchError(sess, raises) == sess

\* lines 485-490: update_data(player_data, img_bytes, tag), set_state
SessionAfterTag(sess, player_data, img_bytes, raw) ==
    [state |-> "waiting_for_description",
     data |-> UpdateData(sess.data,
                  [player_data |-> player_data, img_bytes |-> img_bytes, tag |-> raw])]

FetchErrorMessage(raises) ==
    IF raises = "ValueError" THEN "not_found"
    ELSE IF raises = "PermissionError" THEN "unauthorized"
    ELSE "api_error"

\* the provider answers one run of fetch_bs_image may meet
ProviderScenarios ==
    { [i \in Providers |-> Resp(200, CtHtml, HtmlBody)],
      [i \in Providers |-> IF i < 3 THEN Resp(200, CtHtml, HtmlBody)
                                    ELSE Resp(200, CtHtml, PngBody)],
      [i \in Providers |-> IF i = 1 THEN Resp(200, CtPng, <<>>) ELSE RespError] }

\* lines 442-455: the message arrives in waiting_for_tag
process_tag(u, text) ==
    /\ session[u].state = "waiting_for_tag"
    /\ IF ~TagAccepted(text)
       THEN /\ finished' = Replied(u, "process_tag", text, "invalid_tag")
            /\ UNCHANGED tasks
       ELSE /\ FreeSlots # {}
            /\ tasks' = [tasks EXCEPT ![FirstFree] =
                            [NoTask EXCEPT !.user = u,
                                           !.handler = "process_tag",
                                           !.pc = "wait_msg",
                                           !.raw = Normalize(text),
                                           !.game_id = Get(session[u].data, "game_id", "bs")]]
            /\ finished' = NoTrace
    /\ Processed(u, FALSE)
    /\ UNCHANGED <<session, CHANNEL_ID>>

\* line 455: the loading message is sent, or the send raises
process_tag_wait_msg(s, ok) ==
    LET t == tasks[s] IN
    /\ t.handler = "process_tag" /\ t.pc = "wait_msg"
    /\ IF ok
       THEN /\ tasks' = [tasks EXCEPT ![s] =
                            [t EXCEPT !.pc = "fetch_player",
                                      !.fetched = TRUE,
                                      !.emitted = @ \cup {"loading"}]]
            /\ finished' = NoTrace
       ELSE /\ tasks' = [tasks EXCEPT ![s] = NoTask]
            /\ finished' = Trace(t.user, "process_tag", "waiting_for_tag", "raise", "wait_msg",
                                 t.raw, "", t)
    /\ UNCHANGED <<session, cancelled, updates, CHANNEL_ID>>

\* lines 485-507: store the result, ask for the description, return
TagStored(s, player_data, img_bytes, resolver) ==
    LET t == tasks[s] IN
    /\ session' = [session EXCEPT ![t.user] =
                      SessionAfterTag(session[t.user], player_data, img_bytes, t.raw)]
    /\ tasks' = [tasks EXCEPT ![s] = NoTask]
    /\ finished' = Trace(t.user, "process_tag", "waiting_for_tag", "return", "", t.raw, "",
                         [t EXCEPT !.emitted = @ \cup {"ask_description"},
                                   !.resolver = resolver])

\* a tag step that sets waiting_for_description as soon as the stats are in,
\* before the asset is resolved
process_tag_fetched_state_first(s, resp) ==
    LET t == tasks[s]
        r == fetch_player(t.raw, t.game_id, resp)
    IN
    /\ t.handler = "process_tag" /\ t.pc = "fetch_player"
    /\ IF r.raises # ""
       THEN /\ session' = [session EXCEPT ![t.user] =
                              SessionAfterFetchError(session[t.user], r.raises)]
            /\ tasks' = [tasks EXCEPT ![s] = NoTask]
            /\ finished' = Trace(t.user, "process_tag", "waiting_for_tag", "return", "",
                                 t.raw, r.raises,
                                 [t EXCEPT !.emitted = @ \cup {FetchErrorMessage(r.raises)}])
       ELSE IF t.game_id = "bs"
       THEN /\ tasks' = [tasks EXCEPT ![s] =
                            [t EXCEPT !.pc = "fetch_bs_image", !.player_data = r.value]]
            /\ finished' = NoTrace
            /\ session' = [session EXCEPT ![t.user].state = "waiting_for_description"]
       ELSE TagStored(s, r.value, generate_card(t.game_id, r.value), "none")
    /\ UNCHANGED <<cancelled, updates, CHANNEL_ID>>

\* lines 457-468 and 470-483: fetch_player returns or raises
process_tag_fetched(s, resp) ==
    LET t == tasks[s]
        r == fetch_player(t.raw, t.game_id, resp)
    IN
    /\ t.handler = "process_tag" /\ t.pc = "fetch_player"
    /\ IF r.raises # ""
       THEN /\ session' = [session EXCEPT ![t.user] =
                              SessionAfterFetchError(session[t.user], r.raises)]
            /\ tasks' = [tasks EXCEPT ![s] = NoTask]
            /\ finished' = Trace(t.user, "process_tag", "waiting_for_tag", "return", "",
                                 t.raw, r.raises,
                                 [t EXCEPT !.emitted = @ \cup {FetchErrorMessage(r.raises)}])
       ELSE IF t.game_id = "bs"
       THEN /\ tasks' = [tasks EXCEPT ![s] =
                            [t EXCEPT !.pc = "fetch_bs_image", !.player_data = r.value]]
            /\ finished' = NoTrace
            /\ UNCHANGED session
       ELSE TagStored(s, r.value,
                      IF t.game_id \in {"cr", "coc"}
                      THEN generate_card(t.game_id, r.value) ELSE NoBytes,
                      "none")
    /\ UNCHANGED <<cancelled, updates, CHANNEL_ID>>

\* a resolver that stores whatever fetch_bs_image left, without the fallback
bs_asset_no_fallback(got, player_data) == got

\* lines 478-479: `if not img_bytes: img_bytes = generate_bs_card(player_data)`
bs_asset(got, player_data) ==
    IF Truthy(got) THEN got ELSE generate_card("bs", player_data)

\* lines 473-479: fetch_bs_image returns or raises (img_bytes stays None);
\* the card is drawn when it gave nothing
process_tag_image(s, raised, resps) ==
    LET t == tasks[s]
        got == IF raised THEN NoBytes ELSE fetch_bs_image(resps)
    IN
    /\ t.handler = "process_tag" /\ t.pc = "fetch_bs_image"
    /\ TagStored(s, t.player_data, bs_asset(got, t.player_data),
                 IF raised THEN "raised" ELSE IF Truthy(got) THEN "asset" ELSE "nothing")
    /\ UNCHANGED <<cancelled, updates, CHANNEL_ID>>

(***************************************************************************)
(* Description step and publish: process_description                       *)
(***************************************************************************)
\* set_state(None) in place of clear(): the data dict survives
SessionAfterDescriptionKeepsData(sess) == [sess EXCEPT !.state = "None"]

\* line 514
SessionAfterDescription(sess) == ClearedSession

\* line 522, negated: the session holds stats and an asset
Complete(data) ==
    /\ "player_data" \in DOMAIN data
    /\ "img_bytes" \in DOMAIN data
    /\ Truthy(data["img_bytes"])

\* lines 510-526: the message arrives in waiting_for_description
process_description(u, description) ==
    LET data == session[u].data IN
    /\ session[u].state = "waiting_for_description"
    /\ session' = [session EXCEPT ![u] = SessionAfterDescription(session[u])]
    /\ IF ~Complete(data)
       THEN /\ finished' = Replied(u, "process_description", <<>>, "error_restart")
            /\ UNCHANGED tasks
       ELSE /\ FreeSlots # {}
            /\ tasks' = [tasks EXCEPT ![FirstFree] =
                  [NoTask EXCEPT
                     !.user = u,
                     !.handler = "process_description",
                     !.pc = "answer_photo",
                     !.img_bytes = data["img_bytes"],
                     !.caption = build_caption(data["player_data"],
                                               Get(data, "game_id", "bs"),
                                               Get(data, "tag", <<>>), description)]]
            /\ finished' = NoTrace
    /\ Processed(u, FALSE)
    /\ UNCHANGED CHANNEL_ID

\* line 529, then 531 and 541: the card is delivered to the user, or the send raises
answer_photo(t, ok, channel) ==
    IF ~ok
    THEN [t EXCEPT !.pc = "raised", !.userAttempts = @ + 1]
    ELSE IF channel # ""
    THEN [t EXCEPT !.pc = "send_photo", !.userAttempts = @ + 1, !.userOK = TRUE,
                   !.emitted = @ \cup {"card"}]
    ELSE [t EXCEPT !.pc = "done", !.userAttempts = @ + 1, !.userOK = TRUE,
                   !.emitted = @ \cup {"card", "check_another"}]

\* the channel send outside any try: its failure ends the handler
send_photo_unguarded(t, ok) ==
    IF ok
    THEN [t EXCEPT !.pc = "confirm", !.bcastAttempts = @ + 1, !.bcastOK = TRUE]
    ELSE [t EXCEPT !.pc = "raised", !.bcastAttempts = @ + 1]

\* line 534 inside the try: the card is delivered to the channel, or the send raises
send_photo(t, ok) ==
    IF ok
    THEN [t EXCEPT !.pc = "confirm", !.bcastAttempts = @ + 1, !.bcastOK = TRUE]
    ELSE [t EXCEPT !.pc = "warn", !.bcastAttempts = @ + 1]

\* line 535 inside the try, then 541: a failed confirmation reaches the except too
confirm(t, ok) ==
    IF ok
    THEN [t EXCEPT !.pc = "done", !.emitted = @ \cup {"sent_to_channel", "check_another"}]
    ELSE [t EXCEPT !.pc = "warn"]

\* line 538 in the except, then 541
warn(t, ok) ==
    IF ok
    THEN [t EXCEPT !.pc = "done", !.emitted = @ \cup {"channel_warning", "check_another"}]
    ELSE [t EXCEPT !.pc = "raised"]

\* the task goes on to its next await, returns or raises
Resume(s, at, new) ==
    /\ IF new.pc \in {"done", "raised"}
       THEN /\ tasks' = [tasks EXCEPT ![s] = NoTask]
            /\ finished' = Trace(new.user, new.handler, "waiting_for_description",
                                 IF new.pc = "done" THEN "return" ELSE "raise",
                                 IF new.pc = "done" THEN "" ELSE at,
                                 new.caption.tag, "", new)
       ELSE /\ tasks' = [tasks EXCEPT ![s] = new]
            /\ finished' = NoTrace
    /\ UNCHANGED <<session, cancelled, updates, CHANNEL_ID>>

process_description_answer_photo(s, ok) ==
    /\ tasks[s].handler = "process_description" /\ tasks[s].pc = "answer_photo"
    /\ Resume(s, "answer_photo", answer_photo(tasks[s], ok, CHANNEL_ID))

process_description_send_photo(s, ok) ==
    /\ tasks[s].handler = "process_description" /\ tasks[s].pc = "send_photo"
    /\ Resume(s, "send_photo", send_photo(tasks[s], ok))

process_description_confirm(s, ok) ==
    /\ tasks[s].handler = "process_description" /\ tasks[s].pc = "confirm"
    /\ Resume(s, "confirm", confirm(tasks[s], ok))

process_description_warn(s, ok) ==
    /\ tasks[s].handler = "process_description" /\ tasks[s].pc = "warn"
    /\ Resume(s, "warn", warn(tasks[s], ok))

\* lines 444 and 512: a message without text (a photo, a sticker) in a state
\* whose handler reads message.text
message_without_text(u) ==
    /\ session[u].state # "None"
    /\ finished' = Trace(u, IF session[u].state = "waiting_for_tag"
                            THEN "process_tag" ELSE "process_description",
                         session[u].state, "raise", "text", <<>>, "AttributeError", NoTask)
    /\ Processed(u, FALSE)
    /\ UNCHANGED <<session, tasks, CHANNEL_ID>>

(***************************************************************************)
(* Specifications                                                          *)
(***************************************************************************)
Next ==
    \/ \E u \in Users : cmd_start(u) /\ UNCHANGED <<resolverVars, validationVars>>
    \/ \E u \in Users : cmd_help(u) /\ UNCHANGED <<resolverVars, validationVars>>
    \/ \E u \in Users : cmd_cancel(u) /\ UNCHANGED <<resolverVars, validationVars>>
    \/ \E u \in Users, game_id \in GameChoices :
          on_game_selected(u, game_id) /\ UNCHANGED <<resolverVars, validationVars>>
    \/ \E u \in Users, text \in TagTexts : process_tag(u, text) /\ UNCHANGED <<resolverVars, validationVars>>
    \/ \E u \in Users, description \in Descriptions :
          process_description(u, description) /\ UNCHANGED <<resolverVars, validationVars>>
    \/ \E u \in Users : fallback_text(u) /\ UNCHANGED <<resolverVars, validationVars>>
    \/ \E u \in Users : message_without_text(u) /\ UNCHANGED <<resolverVars, validationVars>>
    \/ \E s \in Slots, ok \in BOOLEAN : process_tag_wait_msg(s, ok) /\ UNCHANGED <<resolverVars, validationVars>>
    \/ \E s \in Slots, resp \in StatsResponses :
          process_tag_fetched(s, resp) /\ UNCHANGED <<resolverVars, validationVars>>
    \/ \E s \in Slots, resps \in ProviderScenarios :
          process_tag_image(s, FALSE, resps) /\ UNCHANGED <<resolverVars, validationVars>>
    \/ \E s \in Slots : process_tag_image(s, TRUE, <<>>) /\ UNCHANGED <<resolverVars, validationVars>>
    \/ \E s \in Slots, ok \in BOOLEAN :
          process_description_answer_photo(s, ok) /\ UNCHANGED <<resolverVars, validationVars>>
    \/ \E s \in Slots, ok \in BOOLEAN :
          process_description_send_photo(s, ok) /\ UNCHANGED <<resolverVars, validationVars>>
    \/ \E s \in Slots, ok \in BOOLEAN :
          process_description_confirm(s, ok) /\ UNCHANGED <<resolverVars, validationVars>>
    \/ \E s \in Slots, ok \in BOOLEAN :
          process_description_warn(s, ok) /\ UNCHANGED <<resolverVars, validationVars>>

Spec == Init /\ [][Next]_vars

SpecResolver == Init /\ [][ResolverNext]_vars

(***************************************************************************)
(* The tag validation of process_tag on its own, over a family of texts    *)
(***************************************************************************)
\* what may stand after the optional "#": runs of one character up to
\* MaxBodyLen long, and mixed bodies
TagBodies ==
    {Rep(c, n) : c \in {"2", "p", "P", "x"}, n \in 0..MaxBodyLen}
        \cup {<<"2", "p", "G", "9">>, <<"2", " ", "p", "g">>,
              <<"2", "2", "2", "x">>, <<"p", "#", "2", "g">>}

\* message texts: blanks, an optional "#" (or two), a body, blanks
ValidatedTexts ==
    {lead \o hash \o body \o trail :
        lead \in {<<>>, <<" ">>}, hash \in {<<>>, <<"#">>, <<"#", "#">>},
        body \in TagBodies, trail \in {<<>>, <<" ">>}}

InitValidation ==
    /\ session = [u \in Users |-> ClearedSession]
    /\ tasks = [s \in Slots |-> NoTask]
    /\ finished = NoTrace
    /\ cancelled = [u \in Users |-> FALSE]
    /\ updates = 0
    /\ CHANNEL_ID = ""
    /\ ResolverInit
    /\ t_pc = "received"
    /\ t_text \in ValidatedTexts
    /\ t_raw = <<>>
    /\ t_accepted = FALSE

\* lines 444-446: raw is computed from message.text
validation_normalize ==
    /\ t_pc = "received"
    /\ t_raw' = Normalize(t_text)
    /\ t_pc' = "normalized"
    /\ UNCHANGED <<t_text, t_accepted>>

\* line 448: raw is matched; when it matches, raw is the key of fetch_player
\* (line 458)
validation_match ==
    /\ t_pc = "normalized"
    /\ t_accepted' = TAG_PATTERN_match(t_raw)
    /\ t_pc' = "matched"
    /\ UNCHANGED <<t_text, t_raw>>

ValidationNext ==
    \/ validation_normalize /\ UNCHANGED <<workflowVars, resolverVars>>
    \/ validation_match /\ UNCHANGED <<workflowVars, resolverVars>>

SpecValidation == InitValidation /\ [][ValidationNext]_vars

(***************************************************************************)
(* Properties                                                              *)
(***************************************************************************)
ErrorReplies == {"not_found", "unauthorized", "api_error"}

\* the tag grammar, stated on the text itself: optional "#", then 3 to 15
\* characters of the alphabet in either case; blanks around it are set aside
GrammarChars == TagAlphabet \cup {"p", "y", "l", "q", "g", "r", "j", "c", "u", "v"}

InTagGrammar(w) ==
    \E h \in {0, 1} :
        /\ h = 1 => (Len(w) >= 1 /\ w[1] = "#")
        /\ Len(w) - h \in 3..15
        /\ \A i \in (h + 1)..Len(w) : w[i] \in GrammarChars

TextInTagGrammar(text) ==
    \E i, j \in 0..Len(text) :
        /\ i + j <= Len(text)
        /\ \A k \in 1..i : text[k] = " "
        /\ \A k \in (Len(text) - j + 1)..Len(text) : text[k] = " "
        /\ InTagGrammar(SubSeq(text, i + 1, Len(text) - j))

\* C1: when the stats endpoint answers 403 to a tag sent in AwaitingTag, the
\* tag step ends with the user's session reset: state Idle, no game_id, no tag.
C1_UnauthorizedResetsSession ==
    (finished.handler = "process_tag" /\ finished.raises = "PermissionError")
        => session[finished.user] = ClearedSession

C3_FetchFailureKeepsSession ==
    [][(/\ finished'.handler = "process_tag"
        /\ finished'.raises \in {"ValueError", "ConnectionError", "ClientError"})
         => (/\ session' = session
             /\ finished'.result = "return"
             /\ finished'.fetched
             /\ finished'.emitted \cap ErrorReplies =
                    {IF finished'.raises = "ValueError" THEN "not_found" ELSE "api_error"}
             /\ "ask_description" \notin finished'.emitted)]_vars

C3_Witness ==
    /\ finished.handler = "process_tag"
    /\ finished.raises = "ValueError"
    /\ session[finished.user].state = "waiting_for_tag"
    /\ DOMAIN session[finished.user].data = {"game_id"}

\* a description arrives for u in AwaitingDescription
DescriptionReceived(u) ==
    /\ session[u].state = "waiting_for_description"
    /\ updates' = updates + 1
    /\ \/ /\ finished'.handler = "process_description"
          /\ finished'.user = u
          /\ finished'.raises # "AttributeError"
       \/ \E s \in Slots : /\ tasks[s] = NoTask
                           /\ tasks'[s].handler = "process_description"
                           /\ tasks'[s].user = u

\* the publish in slot s takes a step
PublishStep(s) ==
    /\ tasks[s].handler = "process_description"
    /\ tasks'[s] # tasks[s]

\* C4: receiving a description in AwaitingDescription resets the session to
\* Idle with game_id, tag, player_data and img_bytes gone, before anything is
\* sent; no later step of the publish, whether a delivery succeeds or fails,
\* writes the session again.
C4_DescriptionClearsSession ==
    [][/\ \A u \in Users : DescriptionReceived(u) => session'[u] = ClearedSession
       /\ \A s \in Slots : PublishStep(s) => session' = session]_vars

C4_Witness ==
    /\ finished.handler = "process_description"
    /\ finished.result = "raise"
    /\ finished.raisedAt = "answer_photo"
    /\ session[finished.user] = ClearedSession

\* C5: /cancel in any state leaves the user's session Idle with no data and
\* raises nothing; from Idle it changes nothing at all.
C5_CancelResets ==
    [][finished'.handler = "cmd_cancel"
         => (/\ session'[finished'.user] = ClearedSession
             /\ finished'.result = "return"
             /\ session[finished'.user] = ClearedSession => session' = session
             /\ \A u \in Users \ {finished'.user} : session'[u] = session[u])]_vars

C5_Witness ==
    /\ finished.handler = "cmd_cancel"
    /\ finished.from = "waiting_for_description"
    /\ session[finished.user] = ClearedSession

\* C6: from the processing of a /cancel of a user until the next update of
\* that user is processed, the user's session is Idle with no data, whatever
\* in-flight fetches complete meanwhile.
C6_CancelledStaysIdle ==
    \A u \in Users : cancelled[u] => session[u] = ClearedSession

\* a publish whose channel delivery was attempted and failed
BroadcastFailed(t) ==
    /\ t.handler = "process_description"
    /\ t.bcastAttempts = 1
    /\ ~t.bcastOK

C8_BothDeliveriesAttemptedOnce ==
    (/\ finished.handler = "process_description"
     /\ finished.raises # "AttributeError"
     /\ "error_restart" \notin finished.emitted)
        => (/\ finished.userAttempts = 1
            /\ CHANNEL_ID # "" => finished.bcastAttempts = 1)

\* the three acceptance tests of the resolver, stated on a response
HasImageType(resp) == \E i \in 1..Len(resp.ct) : resp.ct[i] = "image"
HasSignature(resp, sig) ==
    Len(resp.body) >= Len(sig) /\ SubSeq(resp.body, 1, Len(sig)) = sig
Answers200(resp) == ~resp.exc /\ resp.status = 200
PassesTests(resp) ==
    /\ Answers200(resp)
    /\ \/ HasImageType(resp)
       \/ HasSignature(resp, <<"89", "P", "N", "G">>)
       \/ HasSignature(resp, <<"FF", "D8">>)

\* providers 1 and 2 answered 200 with a non-image body, provider 3 a PNG
ThreeProviderCase ==
    /\ Len(r_contacted) >= 3
    /\ \A k \in 1..2 : r_contacted[k].resp = Resp(200, CtHtml, HtmlBody)
    /\ r_contacted[3].resp = Resp(200, CtHtml, PngBody)

\* C9: the resolver contacts the providers in list order, each at most once;
\* a provider that raises, answers non-200 or answers 200 without an image
\* type or signature is passed over; the first provider that passes ends the
\* run with its bytes, and a run that exhausts the list ends with None, never
\* with an exception.
C9_FirstAcceptedProviderWins ==
    LET n == Len(r_contacted) IN
    /\ n <= NumProviders
    /\ \A k \in 1..n : r_contacted[k].provider = k
    /\ \A k \in 1..(n - 1) : ~PassesTests(r_contacted[k].resp)
    /\ r_pc = "loop" => (r_idx = n + 1 /\ \A k \in 1..n : ~PassesTests(r_contacted[k].resp))
    /\ r_pc \in {"loop", "returned"}
    /\ (r_pc = "returned" /\ r_result.found)
          => (/\ n >= 1
              /\ PassesTests(r_contacted[n].resp)
              /\ r_result.data = r_contacted[n].resp.body)
    /\ (r_pc = "returned" /\ ~r_result.found)
          => (n = NumProviders /\ ~PassesTests(r_contacted[n].resp))
    /\ ThreeProviderCase => (n = 3 /\ r_pc = "returned" /\ r_result = SomeBytes(PngBody))

C9_Witness ==
    /\ ThreeProviderCase
    /\ r_pc = "returned"
    /\ r_result = SomeBytes(PngBody)

\* the resolver returned the bytes of the k-th provider it contacted
AcceptedAt(k) == r_pc = "returned" /\ r_result.found /\ k = Len(r_contacted)

\* C10: a provider response is accepted exactly when its status is 200 and
\* its Content-Type contains "image" or its body starts with the PNG, the
\* JPEG or the RIFF signature.
C10_AcceptedIffImageResponse ==
    \A k \in 1..Len(r_contacted) :
        AcceptedAt(k) <=>
            (/\ Answers200(r_contacted[k].resp)
             /\ \/ HasImageType(r_contacted[k].resp)
                \/ HasSignature(r_contacted[k].resp, <<"89", "P", "N", "G">>)
                \/ HasSignature(r_contacted[k].resp, <<"FF", "D8">>)
                \/ HasSignature(r_contacted[k].resp, <<"R", "I", "F", "F">>))

\* the tag step that ended in the last step stored its result
TagStepStored ==
    /\ finished.handler = "process_tag"
    /\ "ask_description" \in finished.emitted

\* C11: a tag step whose stats fetch succeeded shows the user no error and
\* stores a non-empty asset; for bs the drawn card is stored whenever the
\* resolver gave nothing or raised; for cr and coc the drawn card is stored
\* and fetch_bs_image is not called.
C11_AssetAlwaysStored ==
    TagStepStored =>
        LET d == session[finished.user].data
            stats == d["player_data"]
            asset == d["img_bytes"]
        IN  /\ finished.result = "return"
            /\ finished.raises = ""
            /\ finished.emitted \cap ErrorReplies = {}
            /\ asset.found /\ Len(asset.data) > 0
            /\ stats.game = "bs" =>
                  /\ finished.resolver \in {"raised", "nothing", "asset"}
                  /\ finished.resolver \in {"raised", "nothing"} =>
                        asset = generate_card("bs", stats)
            /\ stats.game \in {"cr", "coc"} =>
                  /\ finished.resolver = "none"
                  /\ asset = generate_card(stats.game, stats)

C11_Witness ==
    /\ TagStepStored
    /\ finished.resolver = "raised"
    /\ session[finished.user].data["img_bytes"] =
           generate_card("bs", session[finished.user].data["player_data"])

\* the session data holds a tag or the player's stats
HoldsResult(u) ==
    \/ "tag" \in DOMAIN session[u].data
    \/ "player_data" \in DOMAIN session[u].data

\* C12: in every reachable session state the tag and the player's stats are
\* held only while the state is waiting_for_description; a session in state
\* None or waiting_for_tag holds neither.
C12_ResultOnlyWhenAwaitingDescription ==
    \A u \in Users :
        HoldsResult(u) => session[u].state = "waiting_for_description"

\* C13: once a game selection has set game_id it does not change while the
\* session lives: no step, another game selection included, takes a session
\* that holds a game_id to one that holds a different game_id.
C13_GameIdImmutable ==
    [][\A u \in Users :
          ("game_id" \in DOMAIN session[u].data /\ "game_id" \in DOMAIN session'[u].data)
              => session'[u].data["game_id"] = session[u].data["game_id"]]_vars

\* slot s received a tag step in this step
TagStepBegins(s) ==
    /\ tasks[s] = NoTask
    /\ tasks'[s].handler = "process_tag"

\* C14: a session in waiting_for_tag holds a game_id of GAMES: the only step
\* into waiting_for_tag is a game selection that stores the game_id with it,
\* a selection of an unknown game changes nothing, and a tag step reads the
\* stored game_id, never the default of data.get("game_id", "bs").
C14_AwaitingTagHasGame ==
    [][/\ \A u \in Users :
             /\ session'[u].state = "waiting_for_tag" =>
                   /\ "game_id" \in DOMAIN session'[u].data
                   /\ session'[u].data["game_id"] \in GAMES
             /\ (session[u].state # "waiting_for_tag"
                    /\ session'[u].state = "waiting_for_tag") =>
                   /\ finished'.handler = "on_game_selected"
                   /\ finished'.user = u
                   /\ finished'.emitted = {"ask_tag"}
       /\ (finished'.handler = "on_game_selected"
              /\ finished'.emitted = {"unknown_game"}) => session' = session
       /\ \A s \in Slots :
             TagStepBegins(s) =>
                 /\ "game_id" \in DOMAIN session[tasks'[s].user].data
                 /\ tasks'[s].game_id = session[tasks'[s].user].data["game_id"]]_vars

C14_Witness ==
    \E s \in Slots :
        /\ tasks[s].handler = "process_tag"
        /\ tasks[s].pc = "wait_msg"
        /\ tasks[s].game_id = "coc"
        /\ session[tasks[s].user].state = "waiting_for_tag"
        /\ finished.handler = "none"

\* this step is a step of a handler of user u: a handler of u ended in it, or
\* a task of u started or moved on
StepFor(u) ==
    \/ finished'.user = u
    \/ \E s \in Slots : tasks'[s] # tasks[s] /\ u \in {tasks[s].user, tasks'[s].user}

\* C15: the sessions of different users are independent: a step of a handler
\* of one user leaves every other user's session and tasks as they were, a
\* session changes only in a step of its own user's handler, and what a tag
\* step or a description step reads comes from its own user's session.
C15_SessionsIndependent ==
    [][/\ \A u \in Users :
             /\ session'[u] # session[u] => StepFor(u)
             /\ StepFor(u) =>
                   \A v \in Users \ {u} :
                       /\ session'[v] = session[v]
                       /\ cancelled'[v] = cancelled[v]
                       /\ \A s \in Slots : tasks[s].user = v => tasks'[s] = tasks[s]
       /\ \A s \in Slots :
             (tasks[s] = NoTask /\ tasks'[s] # NoTask) =>
                 LET own == session[tasks'[s].user].data IN
                 /\ tasks'[s].handler = "process_tag" =>
                       tasks'[s].game_id = Get(own, "game_id", "bs")
                 /\ tasks'[s].handler = "process_description" =>
                       /\ tasks'[s].img_bytes = own["img_bytes"]
                       /\ tasks'[s].caption.stats = own["player_data"]
                       /\ tasks'[s].caption.game_id = Get(own, "game_id", "bs")
                       /\ tasks'[s].caption.tag = Get(own, "tag", <<>>)]_vars

\* u2's /start has just run while u1's session holds a fetched result
C15_Witness ==
    /\ finished.user = "u2"
    /\ finished.handler = "cmd_start"
    /\ session["u1"].state = "waiting_for_description"
    /\ "player_data" \in DOMAIN session["u1"].data

\* the dispatcher handed an update of user u to a handler in this step
Dispatched(u) ==
    /\ updates' = updates + 1
    /\ \/ finished'.user = u
       \/ \E s \in Slots : tasks[s] = NoTask /\ tasks'[s].user = u

\* C16: no two workflow steps of one user run concurrently: a handler
\* execution for an update of a user begins only when no handler execution
\* of that user is suspended at an await.
C16_StepsOfOneUserSerialized ==
    [][\A u \in Users :
          Dispatched(u) => \A s \in Slots : tasks[s].user # u]_vars

\* a character of the text and the character of the key it becomes
SameLetter(c, k) ==
    \/ c = k
    \/ <<c, k>> \in {<<"p", "P">>, <<"y", "Y">>, <<"l", "L">>, <<"q", "Q">>, <<"g", "G">>,
                     <<"r", "R">>, <<"j", "J">>, <<"c", "C">>, <<"u", "U">>, <<"v", "V">>}

\* key is the uppercase form of the tag w, with exactly one leading "#"
IsKeyOf(key, w) ==
    LET body == IF Len(w) >= 1 /\ w[1] = "#" THEN SubSeq(w, 2, Len(w)) ELSE w IN
    /\ Len(key) = Len(body) + 1
    /\ key[1] = "#"
    /\ \A i \in 1..Len(body) :
          key[i + 1] \in TagAlphabet /\ SameLetter(body[i], key[i + 1])

\* the text without the blanks around it
Trimmed(text) ==
    LET first == {i \in 1..Len(text) : text[i] # " "} IN
    IF first = {} THEN <<>>
    ELSE SubSeq(text, CHOOSE i \in first : \A k \in first : i <= k,
                      CHOOSE j \in first : \A k \in first : j >= k)

\* C17 as stated: the text is accepted exactly when the text itself is an
\* optional "#" followed by 3 to 15 characters of the alphabet in either
\* case, and the key passed on is its uppercase form with one leading "#".
C17_AcceptedIffInGrammar ==
    t_pc = "matched" =>
        /\ t_accepted <=> InTagGrammar(t_text)
        /\ t_accepted => IsKeyOf(t_raw, t_text)

\* C17, amended: the text is accepted exactly when, with the blanks around it
\* stripped, it is an optional "#" followed by 3 to 15 characters of the
\* alphabet in either case, and the key passed on is the uppercase form of
\* the stripped text with one leading "#".
C17_AcceptedIffStrippedInGrammar ==
    t_pc = "matched" =>
        /\ t_accepted <=> InTagGrammar(Trimmed(t_text))
        /\ t_accepted => IsKeyOf(t_raw, Trimmed(t_text))

\* a padded lower-case text was accepted and its key is the bare tag
C17_Witness ==
    /\ t_pc = "matched"
    /\ t_accepted
    /\ t_text = <<" ", "#", "p", "p", "p", " ">>
    /\ t_raw = <<"#", "P", "P", "P">>

\* C18: for every text of the tag grammar, normalization (uppercase, then "#"
\* prepended when absent) is idempotent: normalizing the normalized tag
\* returns it unchanged.
C18_NormalizeIdempotent ==
    (t_pc # "received" /\ TextInTagGrammar(t_text)) => Normalize(t_raw) = t_raw

\* a tag sent without "#" in lower case has been normalized
C18_Witness ==
    /\ t_pc = "normalized"
    /\ t_text = <<"p", "p", "p">>
    /\ t_raw = <<"#", "P", "P", "P">>
    /\ Normalize(t_raw) = t_raw

NoStats == PlayerData("", <<>>)

\* where a suspended tag step stands: before the stats call nothing is
\* fetched or produced; during it no stats and no asset work exist; during
\* the resolver call the stats of the step's own game and tag are in and
\* no asset is produced yet
TagStepInOrder(t) ==
    /\ t.pc \in {"wait_msg", "fetch_player", "fetch_bs_image"}
    /\ t.img_bytes = NoBytes
    /\ t.resolver = "none"
    /\ t.pc = "wait_msg" => (~t.fetched /\ t.player_data = NoStats)
    /\ t.pc = "fetch_player" => (t.fetched /\ t.player_data = NoStats)
    /\ t.pc = "fetch_bs_image" =>
          (t.fetched /\ t.game_id = "bs" /\ t.player_data = PlayerData("bs", t.raw))

\* C19: within one tag step the stats fetch has completed successfully before
\* the asset resolver or the card renderer starts, and the asset is produced
\* before stats, asset and tag are stored and the session moves to
\* waiting_for_description: the session enters waiting_for_description only
\* in the last step of a tag step, which has then nothing pending.
C19_TagStepOrdering ==
    [][/\ \A s \in Slots :
             /\ tasks'[s].handler = "process_tag" => TagStepInOrder(tasks'[s])
             /\ (tasks'[s] # tasks[s] /\ tasks'[s].pc = "fetch_player") =>
                   tasks[s].pc = "wait_msg"
             /\ (tasks'[s] # tasks[s] /\ tasks'[s].pc = "fetch_bs_image") =>
                   tasks[s].pc = "fetch_player"
       /\ \A u \in Users :
             (session'[u] # session[u] /\ session'[u].state = "waiting_for_description") =>
                 \E s \in Slots :
                     LET t == tasks[s]
                         d == session'[u].data
                     IN  /\ t.handler = "process_tag" /\ t.user = u
                         /\ t.fetched
                         /\ t.pc = IF t.game_id = "bs" THEN "fetch_bs_image" ELSE "fetch_player"
                         /\ tasks'[s] = NoTask
                         /\ finished'.user = u /\ finished'.handler = "process_tag"
                         /\ "ask_description" \in finished'.emitted
                         /\ d["player_data"] = PlayerData(t.game_id, t.raw)
                         /\ d["tag"] = t.raw
                         /\ d["img_bytes"].found /\ d["img_bytes"].data # <<>>]_vars

\* a bs tag step has stored the asset a provider gave, after its stats fetch
C19_Witness ==
    /\ TagStepStored
    /\ finished.fetched
    /\ finished.resolver = "asset"
    /\ session[finished.user].state = "waiting_for_description"
    /\ session[finished.user].data["img_bytes"] = SomeBytes(PngBody)

\* the card of a description step: its caption names the game whose endpoint
\* gave the stats, its tag is the tag fetched, and its asset was produced for
\* that game and those stats
CardConsistent(t) ==
    /\ t.caption.game_id = t.caption.stats.game
    /\ t.caption.tag = t.caption.stats.tag
    /\ \/ t.img_bytes = generate_card(t.caption.game_id, t.caption.stats)
       \/ t.caption.game_id = "bs" /\ t.img_bytes = SomeBytes(PngBody)

\* C20: every published card is consistent: the game_id used for the caption
\* at publish time is the game_id whose endpoint returned the stats and for
\* which the asset was produced, and the published tag is the tag fetched.
C20_PublishedCardConsistent ==
    \A s \in Slots :
        tasks[s].handler = "process_description" => CardConsistent(tasks[s])

\* the session data holds a game, a tag, the player's stats and an asset
AllFieldsSet(data) ==
    /\ "game_id" \in DOMAIN data /\ data["game_id"] \in GAMES
    /\ "tag" \in DOMAIN data /\ data["tag"] # <<>>
    /\ "player_data" \in DOMAIN data /\ data["player_data"] # PlayerData("", <<>>)
    /\ "img_bytes" \in DOMAIN data /\ Truthy(data["img_bytes"])

\* C21: a session in waiting_for_description holds game_id, tag, player_data
\* and img_bytes, so a description step never replies with the incomplete
\* session error, and a description step that has ended made an attempt to
\* deliver the card to the user.
C21_AwaitingDescriptionComplete ==
    /\ \A u \in Users :
          session[u].state = "waiting_for_description" => AllFieldsSet(session[u].data)
    /\ "error_restart" \notin finished.emitted
    /\ (finished.handler = "process_description" /\ finished.raises # "AttributeError")
          => finished.userAttempts >= 1

====
